---- MODULE Spec2Model ----
(***************************************************************************)
(* streamy: the filesystem backend (scan passes, dbm cache, catalog),      *)
(* the search over the catalog and the byte-range streaming of track.py.   *)
(*                                                                         *)
(* Python strings are modelled as sequences of one-character strings, so   *)
(* that endswith / split / substring / int() are computed, not assumed.    *)
(* An insertion-ordered dict is a sequence of [k, v] records.              *)
(***************************************************************************)
EXTENDS Integers, Sequences, FiniteSets, TLC

VARIABLES
    \* ---- FileSystemBackend / DbmCache (filesystem.py) ----
    pc,             \* position of the backend process
    paths,          \* FileSystemBackend.paths
    skip_walk,      \* FileSystemBackend.skip_walk
    music,          \* FileSystemBackend.music : dict id -> AudioInfo
    video,          \* FileSystemBackend.video : dict id -> VideoInfo
    store,          \* DbmCache.cache : the gdbm file, in its enumeration order
    disk,           \* the media files: path -> size (0 = no such file)
    rootIdx,        \* index in paths of the root scan_path is working on
    todo,           \* files os.walk has still to yield in this scan_path call
    audio_queue,    \* scan_path local
    video_queue,    \* scan_path local
    tasks,          \* the ThreadPoolExecutor's tasks of the running pool.map
    audio_results,  \* results of pool.map(scan_track, audio_queue)
    video_results,  \* results of pool.map(scan_video, video_queue)
    next,           \* position of the `for info in ...` loop over the results
    hist,           \* observation: counters of the current scan_path call
    calls,          \* observation: summaries of the returned scan_path calls
    runs,           \* number of constructions so far
    edits,          \* number of file changes so far
    \* ---- the stream routes (track.py, video.py) ----
    stream,         \* per request: the handler's outcome, the response body
                    \* generator, the opened file and the chunks sent
    \* ---- streaming_response on its own ----
    rg_range,       \* the Range header of the request (None: no header)
    rg_size,        \* the size of the file when it was scanned
    rg_resp,        \* the response (NoResp before the request is answered)
    \* ---- the search routes ----
    sr_search,      \* the UserSearch of the request
    sr_result,      \* what search_tracks / search_videos returned
    \* ---- DbmCache on its own ----
    db_written,     \* observation: per (kind, id) the info last given to set
    db_ret          \* the last call of a client of the cache and its result

scanVars == <<pc, paths, skip_walk, music, video, store, disk, rootIdx, todo,
              audio_queue, video_queue, tasks, audio_results, video_results,
              next, hist, calls, runs, edits>>

streamVars == <<stream>>

rangeVars == <<rg_range, rg_size, rg_resp>>

searchVars == <<sr_search, sr_result>>

storeVars == <<db_written, db_ret>>

vars == <<scanVars, streamVars, rangeVars, searchVars, storeVars>>

-----------------------------------------------------------------------------
(* Bounds of the model *)

MaxRuns == 2        \* constructions of the backend in one behaviour
MaxEdits == 1       \* changes of media files in one behaviour
MaxDiskSize == 3    \* a media file is 1..MaxDiskSize bytes long
MaxRoots == 2       \* length of FileSystemBackend.paths
MaxChunks == 4      \* chunks a consumer takes from a body that does not end
MaxHeaderLen == 4   \* characters of a Range header after its unit
MaxQueryLen == 3    \* characters of a search query
MaxPageSize == 2    \* page size of a listing of the cache
MaxPage == 3        \* page number of a call of iter_tracks / iter_videos
MaxQueue == 7       \* records queued for one pool

-----------------------------------------------------------------------------
(* Python values *)

None == <<"<None>">>

\* x or y, for Optional[str] x
Or(x, y) == IF x = None \/ x = <<>> THEN y ELSE x

\* s.endswith(suffix)
EndsWith(s, suffix) ==
    /\ Len(suffix) <= Len(s)
    /\ SubSeq(s, Len(s) - Len(suffix) + 1, Len(s)) = suffix

\* insertion-ordered dict
DictHas(d, k) == \E i \in DOMAIN d : d[i].k = k

DictGet(d, k) == d[CHOOSE i \in DOMAIN d : d[i].k = k].v

DictSet(d, k, v) ==
    IF DictHas(d, k)
    THEN [i \in DOMAIN d |-> IF d[i].k = k THEN [k |-> k, v |-> v] ELSE d[i]]
    ELSE Append(d, [k |-> k, v |-> v])

DictValues(d) == [i \in DOMAIN d |-> d[i].v]

InsertAt(s, pos, e) == SubSeq(s, 1, pos - 1) \o <<e>> \o SubSeq(s, pos, Len(s))

-----------------------------------------------------------------------------
(* The media library on disk *)

DirM == <<"m">>
DirS == <<"m", "s">>

NameA == <<"a", ".", "m", "p", "3">>
NameB == <<"b", ".", "m", "p", "3">>
NameV == <<"v", ".", "m", "p", "4">>
NameN == <<"n", ".", "t", "x", "t">>

\* every file that can exist: <<directory, name>>, i.e. os.path.join(root, name)
Tree == { <<DirM, NameA>>, <<DirS, NameB>>, <<DirM, NameV>>, <<DirM, NameN>> }

\* the directories a configuration can name as roots; DirS lies inside DirM
Roots == { DirM, DirS }

IsPrefix(p, s) == Len(p) <= Len(s) /\ SubSeq(s, 1, Len(p)) = p

\* os.walk(path): the files that exist under path
Walk(path, d) == { f \in Tree : IsPrefix(path, f[1]) /\ d[f] > 0 }

\* os.walk(..., topdown=False) yields a directory after its subdirectories
WalkNext(remaining) ==
    { f \in remaining :
        \A g \in remaining : ~(IsPrefix(f[1], g[1]) /\ g[1] # f[1]) }

-----------------------------------------------------------------------------
(* filesystem.py: constants, generate_id, scan_track, scan_video *)

VALID_AUDIO_EXTENSIONS == { <<"m", "p", "3">> }
VALID_VIDEO_EXTENSIONS == { <<"m", "p", "4">> }

TRACK_PREFIX == <<"t", "_">>
VIDEO_PREFIX == <<"v", "_">>

\* a pool two workers wider
Threads_seven == 5 + 2

\* ThreadPoolExecutor(max_workers=threads), threads: int = 5
Threads == 5

\* sha1(path).hexdigest(): one digest per path, distinct paths give distinct ids
generate_id(path) == <<"sha1", path>>

\* scan_path's classification of a file name: `audio`, `video` or skipped
FType(name) ==
    IF \E ext \in VALID_AUDIO_EXTENSIONS : EndsWith(name, ext) THEN "audio"
    ELSE IF \E ext \in VALID_VIDEO_EXTENSIONS : EndsWith(name, ext) THEN "video"
    ELSE "skip"

Record(id, name, filepath) == [id |-> id, name |-> name, filepath |-> filepath]

\* what ffmpeg.probe(filepath) reports for a readable file
Ffprobe(filepath, d) ==
    [format |->
        [size        |-> d[filepath],
         bit_rate    |-> IF filepath[2] = NameV THEN 0 ELSE Len(filepath[1]),
         format_name |-> SubSeq(filepath[2], Len(filepath[2]) - 2, Len(filepath[2])),
         duration    |-> 3,
         tags        |-> IF filepath[2] = NameA
                         THEN [title |-> <<"R", "o">>, album |-> <<"L">>,
                               artist |-> None, track |-> <<"1">>, comment |-> None]
                         ELSE [title |-> None, album |-> None, artist |-> None,
                               track |-> None, comment |-> <<"c">>]]]

scan_track(record, d) ==
    LET audio  == Ffprobe(record.filepath, d)
        format == audio.format
        tags   == audio.format.tags
    IN  [id      |-> record.id,
         path    |-> record.filepath,
         size    |-> format.size,
         bitrate |-> format.bit_rate,
         meta    |-> [id       |-> record.id,
                      name     |-> Or(tags.title, record.name),
                      mime     |-> <<"audio/">> \o format.format_name,
                      album    |-> tags.album,
                      artist   |-> tags.artist,
                      track    |-> tags.track,
                      duration |-> format.duration]]

scan_video(record, d) ==
    LET video_ == Ffprobe(record.filepath, d)
        format == video_.format
        tags   == video_.format.tags
    IN  [id      |-> record.id,
         path    |-> record.filepath,
         size    |-> format.size,
         bitrate |-> format.bit_rate,
         meta    |-> [id       |-> record.id,
                      name     |-> Or(tags.title, record.name),
                      mime     |-> <<"video/">> \o format.format_name,
                      comment  |-> tags.comment,
                      duration |-> format.duration]]

-----------------------------------------------------------------------------
(* Serde: BaseInfo.to_json / from_json, per kind *)

\* a serialisation that writes every size as 0
audio_to_json_size_dropped(info) ==
    << <<"id", info.id>>, <<"path", info.path>>,
       <<"meta", << <<"id", info.meta.id>>, <<"name", info.meta.name>>,
                    <<"mime", info.meta.mime>>, <<"duration", info.meta.duration>>,
                    <<"album", info.meta.album>>, <<"artist", info.meta.artist>>,
                    <<"track", info.meta.track>> >> >>,
       <<"size", 0>>, <<"bitrate", info.bitrate>> >>

audio_to_json(info) ==
    << <<"id", info.id>>, <<"path", info.path>>,
       <<"meta", << <<"id", info.meta.id>>, <<"name", info.meta.name>>,
                    <<"mime", info.meta.mime>>, <<"duration", info.meta.duration>>,
                    <<"album", info.meta.album>>, <<"artist", info.meta.artist>>,
                    <<"track", info.meta.track>> >> >>,
       <<"size", info.size>>, <<"bitrate", info.bitrate>> >>

audio_from_json(js) ==
    [id      |-> js[1][2],
     path    |-> js[2][2],
     size    |-> js[4][2],
     bitrate |-> js[5][2],
     meta    |-> [id       |-> js[3][2][1][2],
                  name     |-> js[3][2][2][2],
                  mime     |-> js[3][2][3][2],
                  duration |-> js[3][2][4][2],
                  album    |-> js[3][2][5][2],
                  artist   |-> js[3][2][6][2],
                  track    |-> js[3][2][7][2]]]

video_to_json(info) ==
    << <<"id", info.id>>, <<"path", info.path>>,
       <<"meta", << <<"id", info.meta.id>>, <<"name", info.meta.name>>,
                    <<"mime", info.meta.mime>>, <<"duration", info.meta.duration>>,
                    <<"comment", info.meta.comment>> >> >>,
       <<"size", info.size>>, <<"bitrate", info.bitrate>> >>

video_from_json(js) ==
    [id      |-> js[1][2],
     path    |-> js[2][2],
     size    |-> js[4][2],
     bitrate |-> js[5][2],
     meta    |-> [id       |-> js[3][2][1][2],
                  name     |-> js[3][2][2][2],
                  mime     |-> js[3][2][3][2],
                  duration |-> js[3][2][4][2],
                  comment  |-> js[3][2][5][2]]]

-----------------------------------------------------------------------------
(* DbmCache *)

\* f'{prefix}{id}'
Key(prefix, id) == prefix \o id

\* key.startswith(prefix)
StartsWith(key, prefix) ==
    Len(prefix) <= Len(key) /\ SubSeq(key, 1, Len(prefix)) = prefix

\* DbmCache.iter_keys: firstkey / nextkey, the file's own order
iter_keys(cache) == [i \in DOMAIN cache |-> cache[i].k]

\* the lookup with the video prefix whatever the kind asked for
db_has_video_prefix(cache, prefix, id) == DictHas(cache, Key(VIDEO_PREFIX, id))

\* a lookup that never finds the record
db_has_never(cache, prefix, id) == FALSE

\* DbmCache._get: is there a value under prefix + id
db_has(cache, prefix, id) == DictHas(cache, Key(prefix, id))

\* DbmCache._get: the stored value (the caller applies item.from_json)
db_get(cache, prefix, id) == DictGet(cache, Key(prefix, id))

\* a set that leaves the value of an existing key as it is
db_set_keeps_existing(cache, prefix, id, js, pos) ==
    IF DictHas(cache, Key(prefix, id))
    THEN cache
    ELSE InsertAt(cache, pos, [k |-> Key(prefix, id), v |-> js])

\* DbmCache._set: self.cache[key] = item.to_json(); a new key lands where
\* the file's hashing puts it (pos), an existing key keeps its place
db_set(cache, prefix, id, js, pos) ==
    IF DictHas(cache, Key(prefix, id))
    THEN DictSet(cache, Key(prefix, id), js)
    ELSE InsertAt(cache, pos, [k |-> Key(prefix, id), v |-> js])

\* the keys of one kind, in enumeration order
RECURSIVE KindKeys(_, _)
KindKeys(keys, prefix) ==
    IF keys = <<>> THEN <<>>
    ELSE (IF StartsWith(Head(keys), prefix) THEN <<Head(keys)>> ELSE <<>>)
         \o KindKeys(Tail(keys), prefix)

\* the pages numbered from 0: page p keeps [p * size, (p + 1) * size)
db_iter_page_from_zero(cache, page, size, prefix) ==
    LET start == page * size
        end   == (page + 1) * size
        items == KindKeys(iter_keys(cache), prefix)
        keep  == { n \in 0 .. Len(items) - 1 :
                     size > 0 => (n >= start /\ n < end) }
        RECURSIVE Out(_)
        Out(n) == IF n >= Len(items) THEN <<>>
                  ELSE (IF n \in keep THEN <<DictGet(cache, items[n + 1])>> ELSE <<>>)
                       \o Out(n + 1)
    IN  Out(0)

\* the window of a page taken one item late: (start, end] for [start, end)
db_iter_window_late(cache, page, size, prefix) ==
    LET start == (page - 1) * size
        end   == page * size
        items == KindKeys(iter_keys(cache), prefix)
        keep  == { n \in 0 .. Len(items) - 1 :
                     size > 0 => (n > start /\ n <= end) }
        RECURSIVE Out(_)
        Out(n) == IF n >= Len(items) THEN <<>>
                  ELSE (IF n \in keep THEN <<DictGet(cache, items[n + 1])>> ELSE <<>>)
                       \o Out(n + 1)
    IN  Out(0)

\* DbmCache._iter(page, size, prefix, item): the values before from_json
db_iter(cache, page, size, prefix) ==
    LET start == (page - 1) * size
        end   == page * size
        items == KindKeys(iter_keys(cache), prefix)
        keep  == { n \in 0 .. Len(items) - 1 :
                     size > 0 => (n >= start /\ n < end) }
        RECURSIVE Out(_)
        Out(n) == IF n >= Len(items) THEN <<>>
                  ELSE (IF n \in keep THEN <<DictGet(cache, items[n + 1])>> ELSE <<>>)
                       \o Out(n + 1)
    IN  Out(0)

\* DbmCache.iter_tracks(page=1, size=0)
iter_tracks(cache, page, size) ==
    LET raw == db_iter(cache, page, size, TRACK_PREFIX)
    IN  [i \in DOMAIN raw |-> audio_from_json(raw[i])]

\* DbmCache.iter_videos(page=1, limit=0)
iter_videos(cache, page, limit) ==
    LET raw == db_iter(cache, page, limit, VIDEO_PREFIX)
    IN  [i \in DOMAIN raw |-> video_from_json(raw[i])]

-----------------------------------------------------------------------------
(* FileSystemBackend: construction, load_cache, scan_path *)

NoHist == [sets |-> 0, flushes |-> 0, dirty |-> 0, probes |-> 0,
           visited |-> 0, store0 |-> <<>>, root |-> <<>>,
           music0 |-> <<>>, video0 |-> <<>>,
           probed |-> [f \in Tree |-> 0]]

\* the locals of a scan_path(path) call at its first line; m and v are the
\* Catalogs the call starts from, pr the probes counted so far in the scan
BeginScan(idx, ps, m, v, pr) ==
    /\ rootIdx' = idx
    /\ todo' = Walk(ps[idx], disk)
    /\ audio_queue' = <<>>
    /\ video_queue' = <<>>
    /\ tasks' = <<>>
    /\ audio_results' = <<>>
    /\ video_results' = <<>>
    /\ next' = 1
    /\ hist' = [NoHist EXCEPT !.store0 = store, !.root = ps[idx],
                               !.music0 = m, !.video0 = v,
                               !.probed = pr]

\* load_cache(): for track in self.db.iter_tracks(): self.music[track.id] = track
RECURSIVE load_tracks(_, _)
load_tracks(m, tracks) ==
    IF tracks = <<>> THEN m
    ELSE load_tracks(DictSet(m, Head(tracks).id, Head(tracks)), Tail(tracks))

load_cache_music(m, cache) == load_tracks(m, iter_tracks(cache, 1, 0))

load_cache_video(v, cache) == v

Configs == UNION { [1 .. n -> Roots] : n \in 1 .. MaxRoots }

\* FileSystemBackend(cache, paths, skip_walk=...): __post_init__; the paths
\* are those of the deployment (server/__init__.py), the same at every start
Construct(ps, sw) ==
    /\ pc = "stopped"
    /\ runs < MaxRuns
    /\ runs' = runs + 1
    /\ ps = paths
    /\ skip_walk' = sw
    /\ calls' = <<>>
    /\ IF ~sw
       THEN /\ music' = <<>>
            /\ video' = <<>>
            /\ pc' = "walk"
            /\ BeginScan(1, ps, <<>>, <<>>, NoHist.probed)
       ELSE /\ music' = load_cache_music(<<>>, store)
            /\ video' = load_cache_video(<<>>, store)
            /\ pc' = "serving"
            /\ hist' = NoHist
            /\ UNCHANGED <<rootIdx, todo, audio_queue, video_queue, tasks,
                           audio_results, video_results, next>>
    /\ UNCHANGED <<paths, store, disk, edits>>
    /\ UNCHANGED <<streamVars, rangeVars, searchVars, storeVars>>

\* one iteration of the os.walk loops of scan_path
WalkFile(f) ==
    /\ pc = "walk"
    /\ f \in WalkNext(todo)
    /\ todo' = todo \ {f}
    /\ LET root   == f[1]
           name   == f[2]
           ftype  == FType(name)
           fpath  == <<root, name>>
           id     == generate_id(fpath)
           record == Record(id, name, fpath)
       IN  /\ hist' = [hist EXCEPT !.visited = @ + 1]
           /\ IF ftype = "audio"
              THEN IF db_has(store, TRACK_PREFIX, id)
                   THEN /\ music' = DictSet(music, id,
                                audio_from_json(db_get(store, TRACK_PREFIX, id)))
                        /\ UNCHANGED <<video, audio_queue, video_queue>>
                   ELSE /\ audio_queue' = Append(audio_queue, record)
                        /\ UNCHANGED <<music, video, video_queue>>
              ELSE IF ftype = "video"
              THEN IF db_has(store, VIDEO_PREFIX, id)
                   THEN /\ video' = DictSet(video, id,
                                video_from_json(db_get(store, VIDEO_PREFIX, id)))
                        /\ UNCHANGED <<music, audio_queue, video_queue>>
                   ELSE /\ video_queue' = Append(video_queue, record)
                        /\ UNCHANGED <<music, video, audio_queue>>
              ELSE UNCHANGED <<music, video, audio_queue, video_queue>>
    /\ UNCHANGED <<pc, paths, skip_walk, store, disk, rootIdx, tasks,
                   audio_results, video_results, next, calls, runs, edits>>
    /\ UNCHANGED <<streamVars, rangeVars, searchVars, storeVars>>

NoResult == [ok |-> FALSE, info |-> <<>>]

\* the walk is over: scan_tracks(audio_queue) submits every record to its pool
WalkDone ==
    /\ pc = "walk"
    /\ todo = {}
    /\ pc' = "audio_pool"
    /\ tasks' = [i \in DOMAIN audio_queue |-> "pending"]
    /\ audio_results' = [i \in DOMAIN audio_queue |-> NoResult]
    /\ UNCHANGED <<paths, skip_walk, music, video, store, disk, rootIdx, todo,
                   audio_queue, video_queue, video_results, next, hist, calls,
                   runs, edits>>
    /\ UNCHANGED <<streamVars, rangeVars, searchVars, storeVars>>

Running(ts) == { i \in DOMAIN ts : ts[i] = "running" }
Pending(ts) == { i \in DOMAIN ts : ts[i] = "pending" }

\* a worker thread of the pool takes the oldest pending task
ProbeStart ==
    /\ pc \in {"audio_pool", "video_pool"}
    /\ Pending(tasks) # {}
    /\ Cardinality(Running(tasks)) < Threads
    /\ LET i == CHOOSE j \in Pending(tasks) : \A k \in Pending(tasks) : j <= k
           f == IF pc = "audio_pool" THEN audio_queue[i].filepath
                ELSE video_queue[i].filepath
       IN  /\ tasks' = [tasks EXCEPT ![i] = "running"]
           /\ hist' = [hist EXCEPT !.probes = @ + 1, !.probed[f] = @ + 1]
    /\ UNCHANGED <<pc, paths, skip_walk, music, video, store, disk, rootIdx,
                   todo, audio_queue, video_queue, audio_results, video_results,
                   next, calls, runs, edits>>
    /\ UNCHANGED <<streamVars, rangeVars, searchVars, storeVars>>

\* scan_track / scan_video returns (ok) or raises (ffmpeg.Error, KeyError)
ProbeEnd(i, ok) ==
    /\ pc \in {"audio_pool", "video_pool"}
    /\ i \in Running(tasks)
    /\ tasks' = [tasks EXCEPT ![i] = "done"]
    /\ IF pc = "audio_pool"
       THEN /\ audio_results' = [audio_results EXCEPT ![i] =
                    IF ok THEN [ok |-> TRUE, info |-> scan_track(audio_queue[i], disk)]
                    ELSE NoResult]
            /\ UNCHANGED video_results
       ELSE /\ video_results' = [video_results EXCEPT ![i] =
                    IF ok THEN [ok |-> TRUE, info |-> scan_video(video_queue[i], disk)]
                    ELSE NoResult]
            /\ UNCHANGED audio_results
    /\ UNCHANGED <<pc, paths, skip_walk, music, video, store, disk, rootIdx,
                   todo, audio_queue, video_queue, next, hist, calls, runs, edits>>
    /\ UNCHANGED <<streamVars, rangeVars, searchVars, storeVars>>

\* a pool left as soon as one of its tasks is over
AllDone_first_one(ts) == ts = <<>> \/ \E i \in DOMAIN ts : ts[i] = "done"

\* shutdown(wait=True): every task of the pool is over
AllDone(ts) == \A i \in DOMAIN ts : ts[i] = "done"

\* leaving `with ThreadPoolExecutor(...)`: shutdown(wait=True), then the
\* iterator of results is returned to scan_path
PoolJoin ==
    /\ pc \in {"audio_pool", "video_pool"}
    /\ AllDone(tasks)
    /\ pc' = IF pc = "audio_pool" THEN "audio_apply" ELSE "video_apply"
    /\ next' = 1
    /\ UNCHANGED <<paths, skip_walk, music, video, store, disk, rootIdx, todo,
                   audio_queue, video_queue, tasks, audio_results,
                   video_results, hist, calls, runs, edits>>
    /\ UNCHANGED <<streamVars, rangeVars, searchVars, storeVars>>

\* one iteration of `for info in scan_tracks(audio_queue)`; a task that
\* raised re-raises here, out of scan_path and out of the constructor
ApplyAudio(pos) ==
    /\ pc = "audio_apply"
    /\ IF next > Len(audio_results)
       THEN /\ pc' = "video_pool"
            /\ tasks' = [i \in DOMAIN video_queue |-> "pending"]
            /\ video_results' = [i \in DOMAIN video_queue |-> NoResult]
            /\ pos = 1
            /\ UNCHANGED <<music, store, next, hist>>
       ELSE IF ~audio_results[next].ok
       THEN /\ pc' = "crashed"
            /\ pos = 1
            /\ UNCHANGED <<music, store, next, hist, tasks, video_results>>
       ELSE LET info == audio_results[next].info
            IN  /\ music' = DictSet(music, info.id, info)
                /\ pos \in 1 .. Len(store) + 1
                /\ store' = db_set(store, TRACK_PREFIX, info.id,
                                   audio_to_json(info), pos)
                /\ next' = next + 1
                /\ hist' = [hist EXCEPT !.sets = @ + 1, !.dirty = @ + 1]
                /\ UNCHANGED <<pc, tasks, video_results>>
    /\ UNCHANGED <<paths, skip_walk, video, disk, rootIdx, todo, audio_queue,
                   video_queue, audio_results, calls, runs, edits>>
    /\ UNCHANGED <<streamVars, rangeVars, searchVars, storeVars>>

\* one iteration of `for info in scan_videos(video_queue)`
ApplyVideo(pos) ==
    /\ pc = "video_apply"
    /\ IF next > Len(video_results)
       THEN /\ pc' = "end"
            /\ pos = 1
            /\ UNCHANGED <<video, store, next, hist>>
       ELSE IF ~video_results[next].ok
       THEN /\ pc' = "crashed"
            /\ pos = 1
            /\ UNCHANGED <<video, store, next, hist>>
       ELSE LET info == video_results[next].info
            IN  /\ video' = DictSet(video, info.id, info)
                /\ pos \in 1 .. Len(store) + 1
                /\ store' = db_set(store, VIDEO_PREFIX, info.id,
                                   video_to_json(info), pos)
                /\ next' = next + 1
                /\ hist' = [hist EXCEPT !.sets = @ + 1, !.dirty = @ + 1]
                /\ UNCHANGED pc
    /\ UNCHANGED <<paths, skip_walk, music, disk, rootIdx, todo, audio_queue,
                   video_queue, tasks, audio_results, video_results, calls,
                   runs, edits>>
    /\ UNCHANGED <<streamVars, rangeVars, searchVars, storeVars>>

\* the flush decided on the audio queue alone
NeedFlush_audio_only(aq, vq) == aq # <<>>

\* `if audio_queue or video_queue:`
NeedFlush(aq, vq) == aq # <<>> \/ vq # <<>>

\* `if audio_queue or video_queue: self.db.flush()`, scan_path returns and
\* __post_init__ goes on with the next path
EndPass ==
    /\ pc = "end"
    /\ LET flush == NeedFlush(audio_queue, video_queue)
           h     == IF flush
                    THEN [hist EXCEPT !.flushes = @ + 1, !.dirty = 0]
                    ELSE hist
       IN  /\ calls' = Append(calls, h)
           /\ IF rootIdx < Len(paths)
              THEN /\ pc' = "walk"
                   /\ BeginScan(rootIdx + 1, paths, music, video,
                                hist.probed)
              ELSE /\ pc' = "serving"
                   /\ hist' = h
                   /\ UNCHANGED <<rootIdx, todo, audio_queue, video_queue,
                                  tasks, audio_results, video_results, next>>
    /\ UNCHANGED <<paths, skip_walk, music, video, store, disk, runs, edits>>
    /\ UNCHANGED <<streamVars, rangeVars, searchVars, storeVars>>

\* the serving backend scans its paths again: `for path in self.paths:
\* self.scan_path(path)` on the Catalogs the requests read
Rescan ==
    /\ pc = "serving"
    /\ runs < MaxRuns
    /\ runs' = runs + 1
    /\ calls' = <<>>
    /\ pc' = "walk"
    /\ BeginScan(1, paths, music, video, NoHist.probed)
    /\ UNCHANGED <<paths, skip_walk, music, video, store, disk, edits>>
    /\ UNCHANGED <<streamVars, rangeVars, searchVars, storeVars>>

\* the process ends (after serving, or by the exception) and the gdbm file
\* is closed; a later start opens the same file
Restart ==
    /\ pc \in {"serving", "crashed"}
    /\ pc' = "stopped"
    /\ music' = <<>>
    /\ video' = <<>>
    /\ UNCHANGED <<paths, skip_walk, store, disk, rootIdx, todo, audio_queue,
                   video_queue, tasks, audio_results, video_results, next,
                   hist, calls, runs, edits>>
    /\ UNCHANGED <<streamVars, rangeVars, searchVars, storeVars>>

\* a file is removed (0), or replaced or created with other content; the
\* files of the first start are 1 byte long
EditSizes == {0, 2}

\* while the server is down a media file is replaced, removed or created
Edit(f, size) ==
    /\ pc = "stopped"
    /\ runs >= 1
    /\ edits < MaxEdits
    /\ size # disk[f]
    /\ disk' = [disk EXCEPT ![f] = size]
    /\ edits' = edits + 1
    /\ UNCHANGED <<pc, paths, skip_walk, music, video, store, rootIdx, todo,
                   audio_queue, video_queue, tasks, audio_results,
                   video_results, next, hist, calls, runs>>
    /\ UNCHANGED <<streamVars, rangeVars, searchVars, storeVars>>

ScanInit ==
    /\ pc = "stopped"
    /\ paths \in Configs
    /\ skip_walk = FALSE
    /\ music = <<>>
    /\ video = <<>>
    /\ store = <<>>
    /\ disk = [f \in Tree |-> 1]
    /\ rootIdx = 0
    /\ todo = {}
    /\ audio_queue = <<>>
    /\ video_queue = <<>>
    /\ tasks = <<>>
    /\ audio_results = <<>>
    /\ video_results = <<>>
    /\ next = 1
    /\ hist = NoHist
    /\ calls = <<>>
    /\ runs = 0
    /\ edits = 0

NoResp == [exc |-> "unanswered"]

StreamIdle == stream = <<>>

RangeIdle == rg_range = None /\ rg_size = 0 /\ rg_resp = NoResp

NoSearch == [q |-> <<>>, limit |-> 0, category |-> None]

NoSearchResult == [done |-> FALSE, kind |-> "", order |-> <<>>, items |-> <<>>,
                   pass |-> <<>>]

SearchIdle == sr_search = NoSearch /\ sr_result = NoSearchResult

\* the ids the clients of the cache use
StoreIds == { <<"a">>, <<"_", "a">>, <<"b">> }

Kinds == {"audio", "video"}

NoRet == [op |-> "none", kind |-> "", id |-> <<>>, value |-> <<>>,
          size |-> 0, page |-> 0, items |-> <<>>, store0 |-> <<>>]

StoreIdle ==
    /\ db_written = [key \in Kinds \X StoreIds |-> <<>>]
    /\ db_ret = NoRet

Init == ScanInit /\ StreamIdle /\ RangeIdle /\ SearchIdle /\ StoreIdle

Next ==
    \/ \E sw \in BOOLEAN : Construct(paths, sw)
    \/ \E f \in Tree : WalkFile(f)
    \/ WalkDone
    \/ ProbeStart
    \/ \E i \in 1 .. Cardinality(Tree), ok \in BOOLEAN : ProbeEnd(i, ok)
    \/ PoolJoin
    \/ \E pos \in 1 .. Cardinality(Tree) + 1 : ApplyAudio(pos)
    \/ \E pos \in 1 .. Cardinality(Tree) + 1 : ApplyVideo(pos)
    \/ EndPass
    \/ Restart
    \/ \E f \in Tree, size \in EditSizes : Edit(f, size)

Spec == Init /\ [][Next]_vars

-----------------------------------------------------------------------------
(* track.py: parse_range_header, streaming_response *)

DigitChars == <<"0", "1", "2", "3", "4", "5", "6", "7", "8", "9">>

IsDigit(c) == \E i \in DOMAIN DigitChars : DigitChars[i] = c

DigitVal(c) == (CHOOSE i \in DOMAIN DigitChars : DigitChars[i] = c) - 1

\* int(tok) for a token of digits and other printable characters (no sign,
\* blank or underscore is in the alphabet of the headers below): the value
\* of a non-empty all-digit token, ValueError otherwise
RECURSIVE DecValue(_, _)
DecValue(tok, acc) ==
    IF tok = <<>> THEN acc
    ELSE DecValue(Tail(tok), acc * 10 + DigitVal(Head(tok)))

PyInt(tok) ==
    IF tok # <<>> /\ \A i \in DOMAIN tok : IsDigit(tok[i])
    THEN [ok |-> TRUE, val |-> DecValue(tok, 0)]
    ELSE [ok |-> FALSE, val |-> 0]

\* str(n) for n >= 0
RECURSIVE PyStr(_)
PyStr(n) ==
    IF n < 10 THEN <<DigitChars[n + 1]>>
    ELSE PyStr(n \div 10) \o <<DigitChars[(n % 10) + 1]>>

\* s.find(c) + 1: the first position of c in s, 0 when there is none
Find(s, c) ==
    IF \E i \in DOMAIN s : s[i] = c
    THEN CHOOSE i \in DOMAIN s : s[i] = c /\ \A j \in 1 .. i - 1 : s[j] # c
    ELSE 0

\* header.split('=', 1)[-1]
AfterEq(header) ==
    IF Find(header, "=") = 0 THEN header
    ELSE SubSeq(header, Find(header, "=") + 1, Len(header))

\* s.split(sep)
RECURSIVE Split(_, _)
Split(s, sep) ==
    IF Find(s, sep) = 0 THEN <<s>>
    ELSE <<SubSeq(s, 1, Find(s, sep) - 1)>>
         \o Split(SubSeq(s, Find(s, sep) + 1, Len(s)), sep)

\* `end = ... else file_size + 0`: the default end one past the last byte
DefaultEnd_off_by_one(file_size) == file_size

\* `file_size - 1`, the default end of a range
DefaultEnd(file_size) == file_size - 1

\* parse_range_header(header, file_size): (start, end), or the exception
\* that leaves it: HTTPException(416) from the except clause, or the
\* IndexError of h[1] that the except clause does not catch
parse_range_header(header, file_size) ==
    LET h      == Split(AfterEq(header), "-")
        start  == IF h[1] # <<>> THEN PyInt(h[1]) ELSE [ok |-> TRUE, val |-> 0]
        end    == IF h[2] # <<>> THEN PyInt(h[2])
                  ELSE [ok |-> TRUE, val |-> DefaultEnd(file_size)]
        raised(e) == [exc |-> e, start |-> 0, end |-> 0,
                      detail |-> <<"Invalid Range: ", header>>]
    IN  IF ~start.ok THEN raised("HTTPException(416)")
        ELSE IF Len(h) < 2 THEN raised("IndexError")
        ELSE IF ~end.ok THEN raised("HTTPException(416)")
        ELSE IF start.val > end.val \/ start.val < 0 \/ end.val > file_size - 1
        THEN raised("HTTPException(416)")
        ELSE [exc |-> "none", start |-> start.val, end |-> end.val,
              detail |-> <<>>]

\* `info.bitrate or 1024**2`
DefaultChunk == 1048576

Min(a, b) == IF a < b THEN a ELSE b

\* the status an exception leaving a route handler is answered with
StatusOf(exc) == IF exc = "HTTPException(416)" THEN 416 ELSE 500

\* streaming_response(stream, range) for a BinaryIO stream: the response, or
\* the exception of parse_range_header
streaming_response(info, range) ==
    LET chunk == IF info.bitrate # 0 THEN info.bitrate ELSE DefaultChunk
        p     == parse_range_header(range, info.size)
    IN  IF range = None
        THEN [exc |-> "none", status |-> 200, start |-> 0,
              end |-> info.size - 1, chunk |-> chunk, detail |-> <<>>,
              ContentType |-> info.meta.mime,
              ContentLength |-> PyStr(info.size), ContentRange |-> None]
        ELSE IF p.exc # "none"
        THEN [exc |-> p.exc, status |-> StatusOf(p.exc), start |-> 0,
              end |-> 0, chunk |-> chunk, detail |-> p.detail,
              ContentType |-> None, ContentLength |-> None,
              ContentRange |-> None]
        ELSE [exc |-> "none", status |-> 206, start |-> p.start,
              end |-> p.end, chunk |-> chunk, detail |-> <<>>,
              ContentType |-> info.meta.mime,
              ContentLength |-> PyStr(p.end - p.start + 1),
              ContentRange |-> <<"b", "y", "t", "e", "s", " ">> \o PyStr(p.start)
                               \o <<"-">> \o PyStr(p.end) \o <<"/">>
                               \o PyStr(info.size)]

-----------------------------------------------------------------------------
(* streaming_response over the Range headers *)

RangeAlphabet == {"0", "1", "2", "-", "x", "="}

BytesUnit == <<"b", "y", "t", "e", "s", "=">>

SeqsUpTo(S, n) == UNION { [1 .. k -> S] : k \in 0 .. n }

\* the Range header values of the requests: with and without the unit
RangeInputs ==
    {None} \cup SeqsUpTo(RangeAlphabet, MaxHeaderLen)
    \cup { BytesUnit \o v : v \in SeqsUpTo(RangeAlphabet, MaxHeaderLen) }

\* the library after every file was scanned when it was `size` bytes long
ScannedAt(size) == [f \in Tree |-> size]

\* the AudioInfo of the track a.mp3 scanned at that size
RangeInfo(size) ==
    scan_track(Record(generate_id(<<DirM, NameA>>), NameA, <<DirM, NameA>>),
               ScannedAt(size))

\* streaming_response(content, range) answers the request
RangeRespond ==
    /\ rg_resp = NoResp
    /\ rg_resp' = streaming_response(RangeInfo(rg_size), rg_range)
    /\ UNCHANGED <<rg_range, rg_size, scanVars, streamVars, searchVars, storeVars>>

RangeInit ==
    /\ rg_range \in RangeInputs
    /\ rg_size \in 1 .. MaxDiskSize
    /\ rg_resp = NoResp

InitRange ==
    ScanInit /\ paths = <<DirM>> /\ StreamIdle /\ RangeInit /\ SearchIdle /\ StoreIdle

NextRange == RangeRespond

SpecRange == InitRange /\ [][NextRange]_vars

-----------------------------------------------------------------------------
(* The stream routes: stream_audio / stream_video, read_chunked_range *)

Reqs == {"r1"}

\* the bytes of the file at path when it is n bytes long
Content(path, n) == [k \in 1 .. n |-> 10 * Len(path[1]) + k]

\* f.read(size) at position pos of a file holding data
Read(data, pos, size) == SubSeq(data, pos + 1, Min(pos + size, Len(data)))

\* `min(chunk_size, end - pos)`: one byte short
ReadSize_one_short(chunk_size, end, pos) == Min(chunk_size, end - pos)

\* `read_size = min(chunk_size, end + 1 - pos)`
ReadSize(chunk_size, end, pos) == Min(chunk_size, end + 1 - pos)

NewReq == [st |-> "new", route |-> "", kind |-> "", id |-> <<>>,
           status |-> 0, exc |-> "none",
           size |-> 0, start |-> 0, end |-> 0, chunk |-> 0,
           ContentLength |-> None, ContentRange |-> None,
           gen |-> "none", file |-> "none", path |-> <<>>, pos |-> 0,
           body |-> <<>>, beyond |-> 0]

\* the ids a request can name: those of the files of the library
RequestIds == { generate_id(f) : f \in Tree }

\* the Range headers of the stream requests: none, bytes=<s>-<e> with either
\* side possibly empty, and bytes=<s>
Side == {<<>>} \cup { PyStr(n) : n \in 0 .. MaxDiskSize }

StreamHeaders ==
    {None} \cup { BytesUnit \o s \o <<"-">> \o e : s \in Side, e \in Side }
    \cup { BytesUnit \o s : s \in Side }

\* a lookup in the Catalogs of both kinds
get_info_any_kind(kind, id) ==
    IF DictHas(music, id) THEN <<DictGet(music, id)>>
    ELSE IF DictHas(video, id) THEN <<DictGet(video, id)>>
    ELSE <<>>

\* FileSystemBackend.get_track / get_video: self.music.get(id)
get_info(kind, id) ==
    LET catalog == IF kind = "audio" THEN music ELSE video
    IN  IF DictHas(catalog, id) THEN <<DictGet(catalog, id)>> ELSE <<>>

\* GET /stream/{id}: stream_audio (track.py) / stream_video (video.py), with
\* backend.stream_track / stream_video and streaming_response
StreamRequest(r, kind, id, range) ==
    /\ stream[r].st = "new"
    /\ LET found == get_info(kind, id)
       IN  IF found = <<>>
           THEN \* content is None: HTTPException(400)
                stream' = [stream EXCEPT ![r] =
                    [@ EXCEPT !.st = "failed", !.route = "stream", !.kind = kind,
                              !.id = id, !.status = 400,
                              !.exc = "HTTPException(400)"]]
           ELSE LET info == found[1]
                    resp == streaming_response(info, range)
                IN  IF disk[info.path] = 0
                    THEN \* open(info.path, 'rb') raises FileNotFoundError
                         stream' = [stream EXCEPT ![r] =
                             [@ EXCEPT !.st = "failed", !.route = "stream",
                                       !.kind = kind, !.id = id,
                                       !.status = 500,
                                       !.exc = "FileNotFoundError",
                                       !.path = info.path]]
                    ELSE IF resp.exc # "none"
                    THEN \* parse_range_header raised: the file stays as
                         \* open() left it
                         stream' = [stream EXCEPT ![r] =
                             [@ EXCEPT !.st = "failed", !.route = "stream",
                                       !.kind = kind, !.id = id,
                                       !.status = resp.status,
                                       !.exc = resp.exc, !.size = info.size,
                                       !.file = "open", !.path = info.path]]
                    ELSE stream' = [stream EXCEPT ![r] =
                             [@ EXCEPT !.st = "streaming", !.route = "stream",
                                       !.kind = kind, !.id = id,
                                       !.status = resp.status,
                                       !.size = info.size,
                                       !.start = resp.start, !.end = resp.end,
                                       !.chunk = resp.chunk,
                                       !.ContentLength = resp.ContentLength,
                                       !.ContentRange = resp.ContentRange,
                                       !.gen = "created", !.file = "open",
                                       !.path = info.path]]
    /\ UNCHANGED <<scanVars, rangeVars, searchVars, storeVars>>

\* GET /info/id/{id}: audio_info (track.py) / video_info (video.py)
InfoRequest(r, kind, id) ==
    /\ stream[r].st = "new"
    /\ LET found == get_info(kind, id)
       IN  IF found = <<>>
           THEN \* info is None: HTTPException(400)
                stream' = [stream EXCEPT ![r] =
                    [@ EXCEPT !.st = "failed", !.route = "info", !.kind = kind,
                              !.id = id, !.status = 400,
                              !.exc = "HTTPException(400)"]]
           ELSE stream' = [stream EXCEPT ![r] =
                    [@ EXCEPT !.st = "answered", !.route = "info",
                              !.kind = kind, !.id = id, !.status = 200]]
    /\ UNCHANGED <<scanVars, rangeVars, searchVars, storeVars>>

\* one cursor for all the handles of a resource: the furthest position
\* reached on the file
tell_of_resource(r) ==
    LET ps == { stream[o].pos : o \in { x \in DOMAIN stream :
                                          stream[x].path = stream[r].path } }
    IN  CHOOSE p \in ps : \A k \in ps : p >= k

\* f.tell() on the file object open() returned for request r
tell(r) == stream[r].pos

\* next() on the generator read_chunked_range(f, start, end, chunk_size)
NextChunk(r) ==
    /\ stream[r].st = "streaming"
    /\ stream[r].gen \in {"created", "suspended"}
    /\ LET q    == stream[r]
           \* `with f: f.seek(start)` on the first next(), then f.tell()
           pos  == IF q.gen = "created" THEN q.start ELSE tell(r)
           data == Read(Content(q.path, disk[q.path]), pos,
                        ReadSize(q.chunk, q.end, pos))
       IN  IF pos <= q.end
           THEN \* the chunk is yielded; the first MaxChunks chunks of a
                \* body are kept for observation, of the chunks beyond
                \* them whether their number is odd
                stream' = [stream EXCEPT ![r] =
                       [@ EXCEPT !.gen = "suspended",
                                 !.pos = pos + Len(data),
                                 !.body = IF Len(@) < MaxChunks
                                          THEN Append(@, data) ELSE @,
                                 !.beyond = IF Len(q.body) < MaxChunks
                                            THEN @ ELSE 1 - @]]
           ELSE \* the loop ends, `with f` closes the file, StopIteration
                stream' = [stream EXCEPT ![r] =
                       [@ EXCEPT !.st = "over", !.gen = "finished",
                                 !.pos = pos, !.file = "closed"]]
    /\ UNCHANGED <<scanVars, rangeVars, searchVars, storeVars>>

\* the consumer stops: the generator is closed (close(), or its collection).
\* A generator suspended at its yield gets GeneratorExit and leaves `with f`;
\* a generator that never ran has not entered `with f` and runs nothing.
StopConsuming(r) ==
    /\ stream[r].st = "streaming"
    /\ stream[r].gen \in {"created", "suspended"}
    /\ stream' = [stream EXCEPT ![r] =
           [@ EXCEPT !.st = "over", !.gen = "closed",
                     !.file = IF stream[r].gen = "suspended"
                              THEN "closed" ELSE @]]
    /\ UNCHANGED <<scanVars, rangeVars, searchVars, storeVars>>

\* the interpreter collects a file object nothing refers to any more; when
\* that happens, if at all, is up to the interpreter
Finalize(r) ==
    /\ stream[r].st \in {"failed", "over"}
    /\ stream[r].file = "open"
    /\ stream' = [stream EXCEPT ![r] = [@ EXCEPT !.file = "collected"]]
    /\ UNCHANGED <<scanVars, rangeVars, searchVars, storeVars>>

\* the backend is serving after one scan_path(DirM) that probed and stored
\* the tracks b.mp3 and a.mp3 and the video v.mp4 as ia, ib and iv; the files
\* are now m bytes long (0: gone)
ServingWith(ia, ib, iv, m) ==
    LET rec(info) == Record(info.id, info.path[2], info.path)
    IN  /\ pc = "serving"
        /\ paths = <<DirM>>
        /\ skip_walk = FALSE
        /\ music = DictSet(DictSet(<<>>, ib.id, ib), ia.id, ia)
        /\ video = DictSet(<<>>, iv.id, iv)
        /\ store = << [k |-> Key(TRACK_PREFIX, ib.id), v |-> audio_to_json(ib)],
                      [k |-> Key(TRACK_PREFIX, ia.id), v |-> audio_to_json(ia)],
                      [k |-> Key(VIDEO_PREFIX, iv.id), v |-> video_to_json(iv)] >>
        /\ disk = ScannedAt(m)
        /\ rootIdx = 1
        /\ todo = {}
        /\ audio_queue = <<rec(ib), rec(ia)>>
        /\ video_queue = <<rec(iv)>>
        /\ tasks = <<"done">>
        /\ audio_results = <<[ok |-> TRUE, info |-> ib], [ok |-> TRUE, info |-> ia]>>
        /\ video_results = <<[ok |-> TRUE, info |-> iv]>>
        /\ next = 2
        /\ hist = [NoHist EXCEPT !.sets = 3, !.flushes = 1, !.probes = 3,
                                 !.visited = 4, !.root = DirM]
        /\ calls = <<hist>>
        /\ runs = 1
        /\ edits = 0

RecordOf(f) == Record(generate_id(f), f[2], f)

\* the library was scanned, without failure, when its files were n bytes
\* long, and the files are now m bytes long
ServingInit(n, m) ==
    ServingWith(scan_track(RecordOf(<<DirM, NameA>>), ScannedAt(n)),
                scan_track(RecordOf(<<DirS, NameB>>), ScannedAt(n)),
                scan_video(RecordOf(<<DirM, NameV>>), ScannedAt(n)), m)

InitStream ==
    /\ \E n \in 1 .. MaxDiskSize, m \in 0 .. MaxDiskSize : ServingInit(n, m)
    /\ stream = [r \in Reqs |-> NewReq]
    /\ RangeIdle
    /\ SearchIdle
    /\ StoreIdle

NextStream ==
    \/ \E r \in Reqs, kind \in {"audio", "video"}, id \in RequestIds,
          range \in StreamHeaders : StreamRequest(r, kind, id, range)
    \/ \E r \in Reqs, kind \in {"audio", "video"}, id \in RequestIds :
          InfoRequest(r, kind, id)
    \/ \E r \in Reqs : NextChunk(r)
    \/ \E r \in Reqs : StopConsuming(r)
    \/ \E r \in Reqs : Finalize(r)

SpecStream == InitStream /\ [][NextStream]_vars

\* the consumer of a body keeps asking for its next chunk
SpecStreamLive ==
    InitStream /\ [][NextStream]_vars /\ WF_vars(\E r \in Reqs : NextChunk(r))

\* FileSystemBackend.all_tracks: list(self.db.iter_tracks(page, limit))
all_tracks(page, limit) == iter_tracks(store, page, limit)

\* FileSystemBackend.all_videos: list(self.db.iter_videos(page, limit))
all_videos(page, limit) == iter_videos(store, page, limit)

-----------------------------------------------------------------------------
(* two requests served at once *)

Reqs2 == {"r1", "r2"}

InitStream2 ==
    /\ \E n \in 1 .. MaxDiskSize, m \in 0 .. MaxDiskSize : ServingInit(n, m)
    /\ stream = [r \in Reqs2 |-> NewReq]
    /\ RangeIdle
    /\ SearchIdle
    /\ StoreIdle

\* the steps of two requests of GET /stream/{id} of the audio API
\* interleave in any order
NextStream2 ==
    \/ \E r \in Reqs2, id \in RequestIds, range \in StreamHeaders :
          StreamRequest(r, "audio", id, range)
    \/ \E r \in Reqs2 : NextChunk(r)
    \/ \E r \in Reqs2 : StopConsuming(r)
    \/ \E r \in Reqs2 : Finalize(r)

SpecStream2 == InitStream2 /\ [][NextStream2]_vars

-----------------------------------------------------------------------------
(* UserSearch, search_tracks / search_videos *)

LowerChar(c) == IF c = "A" THEN "a" ELSE IF c = "B" THEN "b" ELSE c

\* s.lower(), over the alphabet of the tags and queries below
Lower(s) == [i \in DOMAIN s |-> LowerChar(s[i])]

\* s.split(): the maximal runs of non-blank characters
RECURSIVE SplitWs(_)
SplitWs(s) ==
    IF s = <<>> THEN <<>>
    ELSE IF Head(s) = " " THEN SplitWs(Tail(s))
    ELSE LET n == IF Find(s, " ") = 0 THEN Len(s) + 1 ELSE Find(s, " ")
         IN  <<SubSeq(s, 1, n - 1)>> \o SplitWs(SubSeq(s, n, Len(s)))

\* `t in s` for strings
IsSubstr(t, s) ==
    \E i \in 0 .. Len(s) - Len(t) : SubSeq(s, i + 1, i + Len(t)) = t

\* UserSearch.tags
tags(search) == { Lower(t) : t \in { SplitWs(search.q)[i] : i \in DOMAIN SplitWs(search.q) } }

\* CATEGORIES = {socket.gethostname()}
Host == <<"h">>
CATEGORIES == { Host }

\* a filter that lets every search pass
match_categories_always(search, categories) == TRUE

\* UserSearch.match_categories
match_categories(search, categories) ==
    IF search.category = None THEN TRUE
    ELSE LET toks    == SplitWs(search.category)
             overlap == { toks[i] : i \in DOMAIN toks } \cap categories
         IN  Cardinality(overlap) > 0

\* the orders in which `for tag in tags` can meet the elements of the set
Orders(S) ==
    { o \in [1 .. Cardinality(S) -> S] : \A x \in S : \E i \in DOMAIN o : o[i] = x }

\* `items = (t.lower() for t in terms if t)`: what the generator will yield
Items(terms) ==
    LET RECURSIVE F(_)
        F(ts) == IF ts = <<>> THEN <<>>
                 ELSE (IF Head(ts) = None \/ Head(ts) = <<>> THEN <<>>
                       ELSE <<Lower(Head(ts))>>) \o F(Tail(ts))
    IN  F(terms)

\* any(tag in term for term in items) on the generator `items`, of which
\* `used` elements are consumed already: the answer, and how many elements
\* are consumed afterwards (any() stops at the first term that holds the tag)
AnyTerm(tag, items, used) ==
    LET hits == { i \in used + 1 .. Len(items) : IsSubstr(tag, items[i]) }
    IN  IF hits = {} THEN [found |-> FALSE, used |-> Len(items)]
        ELSE [found |-> TRUE,
              used  |-> CHOOSE i \in hits : \A j \in hits : i <= j]

\* all(any(tag in term for term in items) for tag in tags), the tags met in
\* the order `order`; the one generator `items` is shared by all the tags
RECURSIVE AllTags(_, _, _)
AllTags(order, items, used) ==
    IF order = <<>> THEN TRUE
    ELSE LET a == AnyTerm(Head(order), items, used)
         IN  a.found /\ AllTags(Tail(order), items, a.used)

\* the terms of a track, of a video
Terms(kind, info) ==
    IF kind = "audio"
    THEN <<info.meta.name, info.meta.artist, info.meta.album>>
    ELSE <<info.meta.name, info.meta.comment>>

\* the loop that stops once it holds more than `limit` results
RECURSIVE SearchLoop_limit_late(_, _, _, _, _)
SearchLoop_limit_late(kind, tracks, order, limit, results) ==
    IF tracks = <<>> THEN results
    ELSE LET track == Head(tracks)
             items == Items(Terms(kind, track))
             res   == IF AllTags(order, items, 0)
                      THEN Append(results, track) ELSE results
         IN  IF limit > 0 /\ Len(res) > limit
             THEN res
             ELSE SearchLoop_limit_late(kind, Tail(tracks), order, limit, res)

\* the `for track in ....values()` loop of search_tracks / search_videos
RECURSIVE SearchLoop(_, _, _, _, _)
SearchLoop(kind, tracks, order, limit, results) ==
    IF tracks = <<>> THEN results
    ELSE LET track == Head(tracks)
             items == Items(Terms(kind, track))
             res   == IF AllTags(order, items, 0)
                      THEN Append(results, track) ELSE results
         IN  IF limit > 0 /\ Len(res) >= limit
             THEN res
             ELSE SearchLoop(kind, Tail(tracks), order, limit, res)

\* search_tracks(search) / search_videos(search)
search(kind, catalog, srch, order) ==
    IF ~match_categories(srch, CATEGORIES) THEN <<>>
    ELSE SearchLoop(kind, DictValues(catalog), order, srch.limit, <<>>)

\* the scan_path call that is running, if any: <<construction, call>>
Scanning == {"walk", "audio_pool", "audio_apply", "video_pool", "video_apply", "end"}

CurrentPass == IF pc \in Scanning THEN <<runs, Len(calls) + 1>> ELSE <<>>

\* GET /search of track.py (audio) and of video.py (video)
Search(kind, order) ==
    /\ ~sr_result.done
    /\ order \in Orders(tags(sr_search))
    /\ sr_result' = [done |-> TRUE, kind |-> kind, order |-> order,
                     items |-> search(kind, IF kind = "audio" THEN music ELSE video,
                                      sr_search, order),
                     pass |-> CurrentPass]
    /\ UNCHANGED <<sr_search, scanVars, streamVars, rangeVars, storeVars>>

\* the tags the probe can have reported for a.mp3 and for v.mp4
TrackNames == { <<"A", "b">>, <<"b">> }
TrackArtists == { None, <<"a">> }
TrackAlbums == { None, <<"B", "a">> }
VideoComments == { None, <<"a", "b">> }

QueryAlphabet == {"a", "b", "B", " "}

\* limit: int = 25
DefaultLimit == 25

SearchLimits == {-1, 0, 1, DefaultLimit}

SearchCategories == { None, <<>>, <<" ">>, Host, <<"o">>, <<"o", " ", "h">> }

InitSearch ==
    /\ \E name \in TrackNames, artist \in TrackArtists, album \in TrackAlbums,
          comment \in VideoComments :
          LET a == scan_track(RecordOf(<<DirM, NameA>>), ScannedAt(1))
              b == scan_track(RecordOf(<<DirS, NameB>>), ScannedAt(1))
              v == scan_video(RecordOf(<<DirM, NameV>>), ScannedAt(1))
          IN  ServingWith(
                  [a EXCEPT !.meta.name = name, !.meta.artist = artist,
                            !.meta.album = album],
                  b,
                  [v EXCEPT !.meta.comment = comment], 1)
    /\ sr_search \in [q : SeqsUpTo(QueryAlphabet, MaxQueryLen),
                      limit : SearchLimits, category : SearchCategories]
    /\ sr_result = NoSearchResult
    /\ StreamIdle
    /\ RangeIdle
    /\ StoreIdle

NextSearch ==
    \/ \E order \in Orders(tags(sr_search)) : Search("audio", order)
    \/ \E order \in Orders(tags(sr_search)) : Search("video", order)

SpecSearch == InitSearch /\ [][NextSearch]_vars

-----------------------------------------------------------------------------
(* scan_tracks over a queue longer than the pool is wide *)

PoolLetters == <<"c", "d", "e", "f", "g", "h", "i", "j", "k">>

\* a library of n tracks right under the root
PoolFile(i) == <<DirM, <<PoolLetters[i], ".", "m", "p", "3">>>>

PoolFiles(n) == { PoolFile(i) : i \in 1 .. n }

\* scan_path(DirM) has walked a library of n new tracks and calls
\* scan_tracks(audio_queue): every record is submitted to the pool
InitPool ==
    /\ \E n \in 1 .. MaxQueue :
          /\ disk = [f \in PoolFiles(n) |-> 1]
          /\ audio_queue = [i \in 1 .. n |-> RecordOf(PoolFile(i))]
          /\ tasks = [i \in 1 .. n |-> "pending"]
          /\ audio_results = [i \in 1 .. n |-> NoResult]
          /\ hist = [NoHist EXCEPT !.root = DirM, !.visited = n,
                                   !.probed = [f \in PoolFiles(n) |-> 0]]
    /\ pc = "audio_pool"
    /\ paths = <<DirM>>
    /\ skip_walk = FALSE
    /\ music = <<>>
    /\ video = <<>>
    /\ store = <<>>
    /\ rootIdx = 1
    /\ todo = {}
    /\ video_queue = <<>>
    /\ video_results = <<>>
    /\ next = 1
    /\ calls = <<>>
    /\ runs = 1
    /\ edits = 0
    /\ StreamIdle /\ RangeIdle /\ SearchIdle /\ StoreIdle

\* a probe that was started returns or raises
ProbeReturns == \E i \in 1 .. MaxQueue, ok \in BOOLEAN : ProbeEnd(i, ok)

NextPool ==
    \/ ProbeStart
    \/ ProbeReturns
    \/ PoolJoin
    \/ ApplyAudio(IF next <= Len(audio_results) /\ audio_results[next].ok
                  THEN Len(store) + 1 ELSE 1)
    \/ ApplyVideo(1)
    \/ EndPass

\* the workers take the pending tasks, every probe returns, and the pool is
\* left once its tasks are over
SpecPool ==
    /\ InitPool
    /\ [][NextPool]_vars
    /\ WF_vars(ProbeStart)
    /\ WF_vars(ProbeReturns)
    /\ WF_vars(PoolJoin)

-----------------------------------------------------------------------------
(* DbmCache on its own: set_track / set_video, get_track / get_video and the
   listings all_tracks / all_videos page after page *)

StoreSizes == {1, 2}

\* the well-formed infos given to set: what a probe builds, under each id
StoreInfos(kind) ==
    IF kind = "audio"
    THEN { scan_track(Record(id, NameA, <<DirM, NameA>>), ScannedAt(n)) :
               id \in StoreIds, n \in StoreSizes }
    ELSE { scan_video(Record(<<"a">>, NameV, <<DirM, NameV>>), ScannedAt(1)) }

Prefix(kind) == IF kind = "audio" THEN TRACK_PREFIX ELSE VIDEO_PREFIX

to_json(kind, info) ==
    IF kind = "audio" THEN audio_to_json(info) ELSE video_to_json(info)

from_json(kind, js) ==
    IF kind = "audio" THEN audio_from_json(js) ELSE video_from_json(js)

\* DbmCache.get_track(id) / get_video(id): <<info>>, or <<>> for None
get(cache, kind, id) ==
    IF db_has(cache, Prefix(kind), id)
    THEN <<from_json(kind, db_get(cache, Prefix(kind), id))>>
    ELSE <<>>

\* DbmCache.iter_tracks(page, size) / iter_videos(page, limit)
iterate(cache, kind, page, size) ==
    IF kind = "audio" THEN iter_tracks(cache, page, size)
    ELSE iter_videos(cache, page, size)

StoreFrame ==
    UNCHANGED <<pc, paths, skip_walk, music, video, disk, rootIdx, todo,
                audio_queue, video_queue, tasks, audio_results, video_results,
                next, hist, calls, runs, edits, streamVars, rangeVars,
                searchVars>>

\* db.set_track(info) / db.set_video(info)
Set(kind, info, pos) ==
    /\ pos \in 1 .. Len(store) + 1
    /\ store' = db_set(store, Prefix(kind), info.id, to_json(kind, info), pos)
    /\ db_written' = [db_written EXCEPT ![<<kind, info.id>>] = <<info>>]
    /\ db_ret' = [NoRet EXCEPT !.op = "set", !.kind = kind, !.id = info.id]
    /\ StoreFrame

\* db.get_track(id) / db.get_video(id)
Get(kind, id) ==
    /\ db_ret' = [NoRet EXCEPT !.op = "get", !.kind = kind, !.id = id,
                               !.value = get(store, kind, id)]
    /\ UNCHANGED <<store, db_written>>
    /\ StoreFrame

\* the number of records of a kind
Count(cache, kind) == Len(KindKeys(iter_keys(cache), Prefix(kind)))

\* ceil(n / size)
Pages(n, size) == (n + size - 1) \div size

\* a client starts to list a kind with pages of `size`
ListStart(kind, size) ==
    /\ db_ret' = [NoRet EXCEPT !.op = "list", !.kind = kind, !.size = size,
                               !.store0 = store]
    /\ UNCHANGED <<store, db_written>>
    /\ StoreFrame

\* it asks for its next page: all_tracks(page, size) / all_videos(page, size),
\* list(self.db.iter_tracks(page, limit))
ListNext ==
    /\ db_ret.op = "list"
    /\ db_ret.page < Pages(Count(db_ret.store0, db_ret.kind), db_ret.size)
    /\ db_ret' = [db_ret EXCEPT
                      !.page = @ + 1,
                      !.items = @ \o iterate(store, db_ret.kind,
                                            db_ret.page + 1, db_ret.size)]
    /\ UNCHANGED <<store, db_written>>
    /\ StoreFrame

\* list(db.iter_tracks(page, size)) / list(db.iter_videos(page, limit)) for
\* any page and size, also page < 1 and size <= 0
Iterate(kind, page, size) ==
    /\ db_ret' = [NoRet EXCEPT !.op = "iter", !.kind = kind, !.page = page,
                               !.size = size,
                               !.items = iterate(store, kind, page, size)]
    /\ UNCHANGED <<store, db_written>>
    /\ StoreFrame

InitStore == ScanInit /\ paths = <<DirM>> /\ StreamIdle /\ RangeIdle /\ SearchIdle /\ StoreIdle

NextStore ==
    \/ \E kind \in Kinds, pos \in 1 .. 2 * Cardinality(StoreIds) + 1 :
          \E info \in StoreInfos(kind) : Set(kind, info, pos)
    \/ \E kind \in Kinds, id \in StoreIds : Get(kind, id)
    \/ \E kind \in Kinds, size \in 1 .. MaxPageSize : ListStart(kind, size)
    \/ ListNext
    \/ \E kind \in Kinds, page \in -1 .. MaxPage, size \in -1 .. MaxPageSize :
          Iterate(kind, page, size)

SpecStore == InitStore /\ [][NextStore]_vars

-----------------------------------------------------------------------------
(* Requests served while scan_path runs *)

\* a request handler (a thread of the server's pool) runs search_tracks /
\* search_videos on the backend whatever scan_path is doing
ReaderSearch(kind) ==
    /\ pc # "stopped"
    /\ \E order \in Orders(tags(sr_search)) : Search(kind, order)

\* the backend starts from the cache alone, then scans
InitRescan == ScanInit /\ StreamIdle /\ RangeIdle /\ SearchIdle /\ StoreIdle

NextRescan ==
    \/ Construct(paths, TRUE)
    \/ Rescan
    \/ \E f \in Tree : WalkFile(f)
    \/ WalkDone
    \/ ProbeStart
    \/ \E i \in 1 .. Cardinality(Tree), ok \in BOOLEAN : ProbeEnd(i, ok)
    \/ PoolJoin
    \/ \E pos \in 1 .. Cardinality(Tree) + 1 : ApplyAudio(pos)
    \/ \E pos \in 1 .. Cardinality(Tree) + 1 : ApplyVideo(pos)
    \/ EndPass
    \/ ReaderSearch("audio")
    \/ ReaderSearch("video")

SpecRescan == InitRescan /\ [][NextRescan]_vars

-----------------------------------------------------------------------------
(* Properties of the scan passes *)

SeqToSet(s) == { s[i] : i \in DOMAIN s }

\* the allow-listed files a scan_path(root) call meets
Listed(root, d) == { f \in Walk(root, d) : FType(f[2]) # "skip" }

PrefixOf(f) == IF FType(f[2]) = "audio" THEN TRACK_PREFIX ELSE VIDEO_PREFIX

Stored(cache, f) == DictHas(cache, Key(PrefixOf(f), generate_id(f)))

StoredInfo(cache, f) ==
    LET js == DictGet(cache, Key(PrefixOf(f), generate_id(f)))
    IN  IF FType(f[2]) = "audio" THEN audio_from_json(js) ELSE video_from_json(js)

Catalog(f) == IF FType(f[2]) = "audio" THEN music ELSE video

InCatalog(f) == DictHas(Catalog(f), generate_id(f))

Written(f) == InCatalog(f) /\ Stored(store, f)

\* the scan_path call is over: it reached its last statement or it raised
PassOver == pc \in {"end", "crashed"}

\* C1: when the probe of a queued file fails the pass still completes; at the
\* end of the pass every queued file whose probe succeeded is in the Catalog
\* and in the store, and every file whose probe failed is in neither.
C1_ProbeFailureIsolated ==
    PassOver =>
        /\ \A i \in DOMAIN audio_results :
              IF audio_results[i].ok
              THEN Written(audio_queue[i].filepath)
              ELSE ~InCatalog(audio_queue[i].filepath)
                   /\ ~Stored(store, audio_queue[i].filepath)
        /\ \A i \in DOMAIN video_results :
              IF video_results[i].ok
              THEN Written(video_queue[i].filepath)
              ELSE ~InCatalog(video_queue[i].filepath)
                   /\ ~Stored(store, video_queue[i].filepath)
        /\ (pc = "crashed" => Len(video_results) = Len(video_queue))

\* every allow-listed file under the root was in the store when the call began
AllCached == \A f \in Listed(hist.root, disk) : Stored(hist.store0, f)

\* C8: a scan_path call over a root whose allow-listed files are all in the
\* store probes nothing, and at its end the Catalog of each kind holds the
\* stored MediaInfo of each of these files.
C8_CachedScanProbesNothing ==
    (pc = "end" /\ AllCached) =>
        /\ hist.probes = 0
        /\ \A f \in Listed(hist.root, disk) :
              /\ InCatalog(f)
              /\ DictGet(Catalog(f), generate_id(f)) = StoredInfo(hist.store0, f)

\* a fully cached root with a file of each kind, one of them changed on disk
\* since it was stored
C8_Witness ==
    /\ pc = "end"
    /\ AllCached
    /\ \E f \in Listed(hist.root, disk) : FType(f[2]) = "audio"
    /\ \E f \in Listed(hist.root, disk) : FType(f[2]) = "video"
    /\ \E f \in Listed(hist.root, disk) : StoredInfo(hist.store0, f).size # disk[f]

RECURSIVE SumOf(_, _)
SumOf(cs, field) ==
    IF cs = <<>> THEN 0
    ELSE (IF field = "sets" THEN Head(cs).sets ELSE Head(cs).flushes)
         + SumOf(Tail(cs), field)

\* C9 as stated: a construction with skip_walk false, over all its roots,
\* calls flush exactly once, after the last set, if it wrote a record, and
\* never if it wrote none.
C9_FlushOncePerConstruction ==
    (pc = "serving" /\ ~skip_walk) =>
        /\ SumOf(calls, "flushes") = (IF SumOf(calls, "sets") > 0 THEN 1 ELSE 0)
        /\ hist.dirty = 0

\* C9 amended: every scan_path call that returns (one call per root) has
\* called flush exactly once, after its last set, if it wrote a record, and
\* never if it wrote none; flush is the last statement of the call, so a call
\* still running, or ended by an exception, has not flushed.
C9_FlushOncePerScanPath ==
    /\ \A i \in DOMAIN calls :
          /\ calls[i].flushes = (IF calls[i].sets > 0 THEN 1 ELSE 0)
          /\ calls[i].dirty = 0
    /\ pc \notin {"stopped", "serving"} => hist.flushes = 0

\* a construction over two roots, each of whose calls wrote and flushed
C9_Witness ==
    /\ pc = "serving"
    /\ ~skip_walk
    /\ Len(calls) = 2
    /\ \A i \in DOMAIN calls : calls[i].sets > 0 /\ calls[i].flushes = 1

\* C10: after a construction with skip_walk true nothing was walked or
\* probed, and the Catalog of each kind holds exactly the records stored
\* under the prefix of that kind.
C10_CacheOnlyLoadsEveryKind ==
    (pc = "serving" /\ skip_walk) =>
        /\ hist.visited = 0
        /\ hist.probes = 0
        /\ SeqToSet(DictValues(music)) =
              { audio_from_json(store[i].v) :
                  i \in { j \in DOMAIN store : StartsWith(store[j].k, TRACK_PREFIX) } }
        /\ SeqToSet(DictValues(video)) =
              { video_from_json(store[i].v) :
                  i \in { j \in DOMAIN store : StartsWith(store[j].k, VIDEO_PREFIX) } }

\* the file whose probe the step starts, if the step starts one
Started(f) == hist'.probed[f] = hist.probed[f] + 1

\* C23: over the scan_path calls of one scan (one per root, the roots may
\* repeat or lie in one another) the probe is started at most once for a
\* file, a failed one included, and never for a file whose key is in the
\* store.
C23_ProbeOncePerPath ==
    /\ [](\A f \in Tree : hist.probed[f] <= 1)
    /\ [][\A f \in Tree : Started(f) => ~Stored(store, f)]_vars

\* a scan over a root and then over the root that holds it has probed each
\* media file once
C23_Witness ==
    /\ pc = "serving"
    /\ ~skip_walk
    /\ paths = <<DirS, DirM>>
    /\ Len(calls) = 2
    /\ \A f \in Tree : FType(f[2]) # "skip" => hist.probed[f] = 1

\* C26: once the backend is constructed, by scan or from the cache alone,
\* every record of a page of all_tracks / all_videos, whatever the page and
\* the size, is what get_track / get_video returns for its id.
C26_ListedIsGettable ==
    pc = "serving" =>
        \A page \in -1 .. MaxPage, size \in -1 .. MaxPageSize :
            /\ \A info \in SeqToSet(all_tracks(page, size)) :
                  get_info("audio", info.id) = <<info>>
            /\ \A info \in SeqToSet(all_videos(page, size)) :
                  get_info("video", info.id) = <<info>>

\* the store holds, under the key prefix + id, a record equal to info
HeldBy(cache, prefix, id, info, kind) ==
    \E j \in DOMAIN cache :
        /\ cache[j].k = prefix \o id
        /\ info = IF kind = "audio" THEN audio_from_json(cache[j].v)
                  ELSE video_from_json(cache[j].v)

\* C27: when a scan_path call has run to its end, and when the backend serves
\* after its scan or its load_cache, every entry of the music and of the
\* video Catalog is keyed by the id of its record, and the store holds an
\* equal record under the prefix of the kind followed by that id.
C27_CatalogMirrorsStore ==
    pc \in {"end", "serving"} =>
        /\ \A i \in DOMAIN music :
              /\ music[i].k = music[i].v.id
              /\ HeldBy(store, <<"t", "_">>, music[i].k, music[i].v, "audio")
        /\ \A i \in DOMAIN video :
              /\ video[i].k = video[i].v.id
              /\ HeldBy(store, <<"v", "_">>, video[i].k, video[i].v, "video")

\* a scan that took one track from the store and probed another, serving
\* with both and a video in its Catalogs
C27_Witness ==
    /\ pc = "serving"
    /\ ~skip_walk
    /\ hist.store0 # <<>>
    /\ hist.probes >= 1
    /\ Len(music) = 2
    /\ Len(video) = 1

\* C24: while a pool runs at most 5 probes are in progress; the pool is left,
\* and when it is left every queued record has been probed exactly once.
C24_PoolWidthAndCoverage ==
    /\ [](pc \in {"audio_pool", "video_pool"} =>
             Cardinality(Running(tasks)) <= 5)
    /\ [](pc = "audio_apply" =>
             /\ hist.probes = Len(audio_queue)
             /\ \A i \in DOMAIN audio_queue :
                   /\ tasks[i] = "done"
                   /\ hist.probed[audio_queue[i].filepath] = 1)
    /\ (pc = "audio_pool") ~> (pc = "audio_apply")

\* five probes are in progress and a queued record waits for a worker
C24_Witness ==
    /\ pc = "audio_pool"
    /\ Cardinality(Running(tasks)) = 5
    /\ Pending(tasks) # {}
    /\ \E i \in DOMAIN tasks : tasks[i] = "done"

\* C22: when a scan_path call is over, whether it returned or a probe's
\* failure ended it, every record it wrote with set has been followed by a
\* flush.
C22_EverySetFlushed ==
    /\ pc \in {"crashed", "serving"} => hist.dirty = 0
    /\ \A i \in DOMAIN calls : calls[i].dirty = 0

\* a probe of the running scan_path call that is queued and not over yet: a
\* task of the running pool, or a video record waiting for the second pool
UnresolvedProbe ==
    \/ pc \in {"audio_pool", "video_pool"} /\ Running(tasks) \cup Pending(tasks) # {}
    \/ pc \in {"audio_pool", "audio_apply"} /\ video_queue # <<>>

\* C18 as stated: once a scan_path call has written a probe result, no
\* queued probe of the call, of either kind, is pending or running.
C18_BarrierOverBothKinds ==
    (pc \in Scanning /\ hist.sets > 0) => ~UnresolvedProbe

\* C18 amended: each pool call is a barrier for the queue of its kind: a
\* step that writes a probe result finds every task of the pool of that
\* kind over, one per queued record; the audio results are written before
\* the pool of the queued videos is started.
C18_BarrierPerKind ==
    [][hist'.sets = hist.sets + 1 =>
          /\ Running(tasks) \cup Pending(tasks) = {}
          /\ Len(tasks) = Len(IF pc = "audio_apply" THEN audio_queue
                              ELSE video_queue)
          /\ pc = "audio_apply" => video_results = <<>>]_vars

\* a call that probed two tracks and a video has written the three results
C18_Witness ==
    /\ pc = "end"
    /\ Len(audio_queue) = 2
    /\ Len(video_queue) = 1
    /\ hist.probes = 3
    /\ hist.sets = 3

\* C12: no step of the backend (scan passes, load_cache, restarts, changes of
\* the files on disk) changes or removes a stored record: every key of the
\* store is still there after the step, with the same value.
C12_StoreNeverMutated ==
    [][\A i \in DOMAIN store :
          /\ DictHas(store', store[i].k)
          /\ DictGet(store', store[i].k) = store[i].v]_vars

\* a second construction has scanned over a stored file that was replaced
\* or removed since, after a first one that wrote it
C12_Witness ==
    /\ pc = "serving"
    /\ runs = 2
    /\ ~skip_walk
    /\ \E f \in Tree :
          /\ FType(f[2]) # "skip"
          /\ IsPrefix(hist.root, f[1])
          /\ Stored(store, f)
          /\ StoredInfo(store, f).size # disk[f]

ListOver ==
    /\ db_ret.op = "list"
    /\ db_ret.page = Pages(Count(db_ret.store0, db_ret.kind), db_ret.size)

\* C14: the pages 1 .. ceil(N / size) of a kind, taken from an unchanged
\* store and put end to end, hold the N records stored under the prefix of
\* that kind, each exactly once, and nothing else.
C14_PagesCoverTheKind ==
    (ListOver /\ store = db_ret.store0) =>
        LET mine == { i \in DOMAIN store :
                        StartsWith(store[i].k, Prefix(db_ret.kind)) }
        IN  /\ Len(db_ret.items) = Cardinality(mine)
            /\ \A i \in mine :
                  Cardinality({ j \in DOMAIN db_ret.items :
                      db_ret.items[j] = from_json(db_ret.kind, store[i].v) }) = 1
            /\ \A j \in DOMAIN db_ret.items :
                  \E i \in mine :
                      db_ret.items[j] = from_json(db_ret.kind, store[i].v)

\* three tracks listed in two pages of two, a video stored between them
C14_Witness ==
    /\ ListOver
    /\ db_ret.kind = "audio"
    /\ db_ret.size = 2
    /\ db_ret.page = 2
    /\ Len(db_ret.items) = 3
    /\ \E i \in 2 .. Len(store) - 1 : StartsWith(store[i].k, VIDEO_PREFIX)

\* the records of a kind in the store's enumeration order
RECURSIVE KindEnumeration(_, _)
KindEnumeration(cache, kind) ==
    IF cache = <<>> THEN <<>>
    ELSE (IF StartsWith(Head(cache).k, Prefix(kind))
          THEN <<from_json(kind, Head(cache).v)>> ELSE <<>>)
         \o KindEnumeration(Tail(cache), kind)

\* C21: iterate(kind, page, size) returns, for size > 0, the records at the
\* positions [(page-1)*size, page*size) of the enumeration of the kind
\* (nothing for a page past the end or below 1) and, for size <= 0, the
\* whole enumeration of the kind whatever the page.
C21_IterateWindow ==
    db_ret.op = "iter" =>
        LET enum  == KindEnumeration(store, db_ret.kind)
            first == (db_ret.page - 1) * db_ret.size + 1
            last  == Min(db_ret.page * db_ret.size, Len(enum))
        IN  IF db_ret.size <= 0 THEN db_ret.items = enum
            ELSE IF db_ret.page < 1 \/ first > Len(enum) THEN db_ret.items = <<>>
            ELSE db_ret.items = [i \in 1 .. last - first + 1 |-> enum[first + i - 1]]

\* the second page of two of three tracks: the third track alone
C21_Witness ==
    /\ db_ret.op = "iter"
    /\ db_ret.kind = "audio"
    /\ db_ret.page = 2
    /\ db_ret.size = 2
    /\ Len(KindEnumeration(store, "audio")) = 3
    /\ Len(db_ret.items) = 1
    /\ \E i \in DOMAIN store : StartsWith(store[i].k, VIDEO_PREFIX)

\* C11: a search that ran while a scan_path call was running returned either
\* the whole Catalog of its kind as it was before the call or the whole
\* Catalog as it is after the call, never one holding only some of the
\* entries the call adds.
C11_ReaderSeesPreOrPost ==
    (pc = "end" /\ sr_result.done /\ sr_result.pass = CurrentPass) =>
        LET pre  == IF sr_result.kind = "audio" THEN hist.music0 ELSE hist.video0
            post == IF sr_result.kind = "audio" THEN music ELSE video
        IN  \/ sr_result.items = DictValues(pre)
            \/ sr_result.items = DictValues(post)

-----------------------------------------------------------------------------
(* Properties of the stream routes *)

\* C3: a stream request that opened the file and then failed with 416 has no
\* open file left.
C3_FailedRangeClosesSource ==
    \A r \in DOMAIN stream :
        (stream[r].st = "failed" /\ stream[r].status = 416)
            => stream[r].file # "open"

\* C4: once the consumption of an accepted stream has ended, by exhaustion or
\* because the consumer stopped after zero or more chunks, the file is no
\* longer open.
C4_EndedStreamClosesSource ==
    \A r \in DOMAIN stream :
        stream[r].st = "over" => stream[r].file # "open"

\* C19: a stream or info request for an id that is not in the Catalog of
\* the kind of its route fails with HTTPException(400), has opened no file,
\* and its status is not the 416 of an invalid range.
C19_UnknownIdIsNotFound ==
    \A r \in DOMAIN stream :
        (/\ stream[r].st # "new"
         /\ ~DictHas(IF stream[r].kind = "audio" THEN music ELSE video,
                     stream[r].id))
            => /\ stream[r].st = "failed"
               /\ stream[r].exc = "HTTPException(400)"
               /\ stream[r].status = 400
               /\ stream[r].status # StatusOf("HTTPException(416)")
               /\ stream[r].file = "none"
               /\ stream[r].gen = "none"

\* the id of the video asked for on the stream route of the tracks
C19_Witness ==
    \E r \in DOMAIN stream :
        /\ stream[r].route = "stream"
        /\ stream[r].kind = "audio"
        /\ stream[r].id = generate_id(<<DirM, NameV>>)
        /\ DictHas(video, stream[r].id)
        /\ stream[r].st = "failed"
        /\ stream[r].status = 400

\* C20: the body of an accepted request ends: a consumer that keeps asking
\* for chunks reaches the end of the generator, whatever the length of the
\* file is now compared with the size recorded by the scan.
C20_BodyEnds ==
    \A r \in Reqs : (stream[r].st = "streaming") ~> (stream[r].st = "over")

RECURSIVE Concat(_)
Concat(chunks) ==
    IF chunks = <<>> THEN <<>> ELSE Head(chunks) \o Concat(Tail(chunks))

\* C7: when the file holds at least totalSize bytes, every chunk of the body
\* is non-empty and at most preferredChunkSize long, the chunks sent so far
\* are the beginning of bytes[start..end], and the exhausted body is exactly
\* bytes[start..end], Content-Length = end - start + 1 bytes of it.
C7_BodyIsTheRange ==
    \A r \in DOMAIN stream :
        LET q      == stream[r]
            wanted == SubSeq(Content(q.path, disk[q.path]), q.start + 1, q.end + 1)
        IN  (q.st \in {"streaming", "over"} /\ disk[q.path] >= q.size) =>
                /\ \A i \in DOMAIN q.body :
                      Len(q.body[i]) >= 1 /\ Len(q.body[i]) <= q.chunk
                /\ IsPrefix(Concat(q.body), wanted)
                /\ q.gen = "finished" =>
                      /\ Concat(q.body) = wanted
                      /\ PyInt(q.ContentLength).ok
                      /\ PyInt(q.ContentLength).val = q.end - q.start + 1
                      /\ Len(Concat(q.body)) = q.end - q.start + 1

\* a range that starts inside the file was sent to its end in several chunks
C7_Witness ==
    \E r \in DOMAIN stream :
        /\ stream[r].gen = "finished"
        /\ stream[r].status = 206
        /\ stream[r].start > 0
        /\ Len(stream[r].body) >= 2
        /\ disk[stream[r].path] >= stream[r].size

\* C25: with two requests served at once, whatever the order of their steps,
\* each request that streams has a handle of its own, the chunks it received
\* are the beginning of its own range and its exhausted body is exactly its
\* own range (the file holding its recorded size), and a step of one request
\* (a chunk read, the end of its body, its close) leaves the handle, the
\* cursor and the body of the other as they were.
C25_StreamsIndependent ==
    /\ [](\A r \in DOMAIN stream :
            LET q      == stream[r]
                wanted == SubSeq(Content(q.path, disk[q.path]),
                                 q.start + 1, q.end + 1)
            IN  /\ q.st = "streaming" => q.file = "open"
                /\ (q.st \in {"streaming", "over"} /\ disk[q.path] >= q.size) =>
                      /\ IsPrefix(Concat(q.body), wanted)
                      /\ q.gen = "finished" => Concat(q.body) = wanted)
    /\ [][\A r \in DOMAIN stream :
            stream'[r] # stream[r] =>
                \A o \in DOMAIN stream \ {r} : stream'[o] = stream[o]]_vars

\* two requests for the same track and different ranges: the second was read
\* to its end and closed while the first, part of its body sent, is still
\* open
C25_Witness ==
    /\ DOMAIN stream = Reqs2
    /\ stream["r1"].path = stream["r2"].path
    /\ stream["r1"].gen = "suspended"
    /\ stream["r1"].file = "open"
    /\ Len(stream["r1"].body) >= 1
    /\ stream["r1"].pos <= stream["r1"].end
    /\ stream["r2"].gen = "finished"
    /\ stream["r2"].file = "closed"
    /\ Len(stream["r2"].body) >= 2
    /\ stream["r2"].start # stream["r1"].start

-----------------------------------------------------------------------------
(* Properties of streaming_response *)

Answered == rg_resp.exc # "unanswered"

AllDigits(tok) == \A i \in DOMAIN tok : IsDigit(tok[i])

\* the header value is one of the invalid ranges C5 lists, for a file of
\* `size` bytes: no '-' separator; a start or end that is no number;
\* start > end; end >= size; a negative start
ListedInvalid(header, size) ==
    LET toks == Split(AfterEq(header), "-")
        s    == IF toks[1] = <<>> THEN 0 ELSE DecValue(toks[1], 0)
        e    == IF toks[2] = <<>> THEN size - 1 ELSE DecValue(toks[2], 0)
    IN  \/ Len(toks) = 1
        \/ /\ Len(toks) = 2
           /\ \/ ~AllDigits(toks[1])
              \/ ~AllDigits(toks[2])
              \/ s > e
              \/ e >= size
        \/ /\ Len(toks) = 3
           /\ toks[1] = <<>>
           /\ toks[2] # <<>> /\ AllDigits(toks[2]) /\ DecValue(toks[2], 0) > 0
           /\ AllDigits(toks[3])

\* C5: a Range header that is not a valid in-bounds range is answered with
\* status 416 carrying the header value, with no other failure and no body.
C5_InvalidRangeIs416 ==
    (Answered /\ rg_range # None /\ ListedInvalid(rg_range, rg_size)) =>
        /\ rg_resp.status = 416
        /\ rg_resp.exc = "HTTPException(416)"
        /\ rg_resp.detail = <<"Invalid Range: ", rg_range>>
        /\ rg_resp.ContentLength = None

\* the header bytes=<s>-<e>; -1 stands for an empty side
Side_(n) == IF n = -1 THEN <<>> ELSE <<DigitChars[n + 1]>>

HeaderOf(s, e) == BytesUnit \o Side_(s) \o <<"-">> \o Side_(e)

\* C6: without a Range header the response is 200 over (0, totalSize - 1)
\* with no Content-Range; with a valid bytes=<s>-<e> it is 206 over (s or 0,
\* e or totalSize - 1) with Content-Range `bytes start-end/totalSize`; and
\* Content-Range is there exactly when the status is 206.
C6_RangeResponse ==
    Answered =>
        /\ rg_range = None =>
              /\ rg_resp.status = 200
              /\ rg_resp.start = 0
              /\ rg_resp.end = rg_size - 1
              /\ rg_resp.ContentRange = None
        /\ \A s \in -1 .. 9, e \in -1 .. 9 :
              LET start == IF s = -1 THEN 0 ELSE s
                  end   == IF e = -1 THEN rg_size - 1 ELSE e
              IN  (rg_range = HeaderOf(s, e) /\ start <= end /\ end <= rg_size - 1)
                  => /\ rg_resp.status = 206
                     /\ rg_resp.start = start
                     /\ rg_resp.end = end
                     /\ rg_resp.ContentRange =
                           <<"b", "y", "t", "e", "s", " ", DigitChars[start + 1],
                             "-", DigitChars[end + 1], "/", DigitChars[rg_size + 1]>>
        /\ (rg_resp.ContentRange # None) <=> (rg_resp.status = 206)

\* bytes=1- on a file of three bytes: 206 over (1, 2)
C6_Witness ==
    /\ Answered
    /\ rg_range = HeaderOf(1, -1)
    /\ rg_size = 3
    /\ rg_resp.status = 206
    /\ rg_resp.start = 1
    /\ rg_resp.end = 2

-----------------------------------------------------------------------------
(* Properties of the search *)

\* every tag is a substring of the lowercased value of some field
MatchesEveryTag(kind, info, srch) ==
    \A tag \in tags(srch) :
        \E i \in DOMAIN Terms(kind, info) :
            /\ Terms(kind, info)[i] # None
            /\ IsSubstr(tag, Lower(Terms(kind, info)[i]))

\* C2: a search (no category filter, no limit) returns a Catalog entry if
\* and only if every tag of the query is a substring of the lowercased value
\* of at least one of the fields of the kind, whatever the number of tags and
\* the order in which they are examined.
C2_MatchIffEveryTag ==
    (sr_result.done /\ sr_search.category = None /\ sr_search.limit <= 0) =>
        LET catalog == DictValues(IF sr_result.kind = "audio" THEN music ELSE video)
        IN  \A i \in DOMAIN catalog :
                (\E j \in DOMAIN sr_result.items : sr_result.items[j] = catalog[i])
                    <=> MatchesEveryTag(sr_result.kind, catalog[i], sr_search)

\* the tokens of the category filter
CategoryTokens(srch) ==
    { SplitWs(srch.category)[i] : i \in DOMAIN SplitWs(srch.category) }

SearchedCatalog == DictValues(IF sr_result.kind = "audio" THEN music ELSE video)

\* C15: a search whose category is set and has no token in the backend's
\* category set returns the empty list, whatever the query, the limit and
\* the Catalog.
C15_ForeignCategoryIsEmpty ==
    (/\ sr_result.done
     /\ sr_search.category # None
     /\ CategoryTokens(sr_search) \cap CATEGORIES = {})
        => sr_result.items = <<>>

\* the category `o` on a query that every entry of a Catalog meets
C15_Witness ==
    /\ sr_result.done
    /\ sr_search.category = <<"o">>
    /\ sr_search.q = <<>>
    /\ SearchedCatalog # <<>>
    /\ sr_result.items = <<>>

\* C16: a category that is absent, empty or blank lets the search pass:
\* match_categories is true and the result is the one the tags decide.
C16_EmptyCategoryPasses ==
    (/\ sr_result.done
     /\ \/ sr_search.category = None
        \/ CategoryTokens(sr_search) = {})
        => /\ match_categories(sr_search, CATEGORIES)
           /\ sr_result.items =
                 SearchLoop(sr_result.kind, SearchedCatalog, sr_result.order,
                            sr_search.limit, <<>>)

\* the test search_tracks / search_videos apply to one entry
Matches(info) ==
    AllTags(sr_result.order, Items(Terms(sr_result.kind, info)), 0)

\* the entries of s that meet the test, in the order of s
RECURSIVE Matching(_)
Matching(s) ==
    IF s = <<>> THEN <<>>
    ELSE (IF Matches(Head(s)) THEN <<Head(s)>> ELSE <<>>) \o Matching(Tail(s))

\* C17: a search that passes the category filter returns the entries that
\* meet the tags, in the order of the Catalog: the first `limit` of them
\* (all when there are fewer) when limit > 0, all of them when limit <= 0.
C17_FirstLimitMatchesInOrder ==
    (sr_result.done /\ match_categories(sr_search, CATEGORIES)) =>
        LET all == Matching(SearchedCatalog)
        IN  IF sr_search.limit > 0
            THEN sr_result.items = SubSeq(all, 1, Min(sr_search.limit, Len(all)))
            ELSE sr_result.items = all

\* two tracks meet the query and the limit of one keeps the first
C17_Witness ==
    /\ sr_result.done
    /\ sr_result.kind = "audio"
    /\ match_categories(sr_search, CATEGORIES)
    /\ sr_search.limit = 1
    /\ sr_search.q # <<>>
    /\ Len(Matching(SearchedCatalog)) = 2
    /\ sr_result.items = <<SearchedCatalog[1]>>

====
